---- MODULE Spec2Model ----
(***************************************************************************)
(* Client-side playback tracker of streamlit-video-state-player            *)
(* (src/streamlit_video_state_player/video_player.py, the _JS block).      *)
(*                                                                         *)
(* The default export of _JS is a function of (data, setStateValue,        *)
(* parentElement).  The host delivers a configuration by invoking that     *)
(* function: every invocation declares its own `let` variables             *)
(* (detectedFps, fpsDetectionComplete, lastUpdateTime, lastSeekTo), reads  *)
(* data once, and adds its own listeners to the <video> element, which is  *)
(* looked up in parentElement and so is the same element on every          *)
(* invocation (line 82 compares against the source it already has).        *)
(* The model keeps one record per invocation in `inst`, in invocation      *)
(* order, which is also listener registration order.                       *)
(*                                                                         *)
(* Times are milliseconds, positions are milliseconds of stream time.      *)
(* Date.now() and the frame callback's `now` are read from one clock.      *)
(*                                                                         *)
(* The host side (video_player, _prepare_video_source, VideoState) is      *)
(* modelled from the Python code of the same file: a call prepares the     *)
(* source, invokes the component function with the data, and converts what *)
(* _component hands back.                                                  *)
(***************************************************************************)
EXTENDS Integers, Sequences, FiniteSets

\* ---------------------------------------------------------------- bounds
MaxInst == 2          \* invocations of the component function per player
MaxRaf == 2           \* pending requestAnimationFrame callbacks per invocation
MaxFrames == 2        \* frame callbacks counted per sampling session

\* ------------------------------------------------------ program constants
UPDATE_THROTTLE_MS == 250
SAMPLE_DURATION_MS == 1000
FALLBACK_FPS == 30

\* ------------------------------------------------------------ input sets
Null == <<>>                          \* JS null / undefined, Python None
Some(x) == <<x>>
Val(o) == o[1]
Duration == 10000                     \* length of the loaded stream
Positions == {0, 2750, Duration}      \* positions playback or the user reaches
SeekTargets == {2500, Duration}       \* seek_to values the host sends
Sources == {"a", "b"}                 \* prepared video_src strings
\* The clock readings at which events are observed: an event 250 ms after the
\* first invocation, one a sampling window later, one after a long pause.
Timeline == <<1000, 1250, 2250, 6500>>

\* Configurations of the playback specifications: one source and video_player's
\* defaults seek_to=None, autoplay=False, loop=False, as example_app.py and
\* example_timeline.py call it.
DataSet ==
    [video_src : {"a"}, seek_to : {Null}, autoplay : {FALSE}, loop : {FALSE}]

\* Configurations of the Seek Gate specification: both sources, every target.
SeekDataSet ==
    [video_src : Sources, seek_to : {Null} \cup {Some(t) : t \in SeekTargets},
     autoplay : {FALSE}, loop : {FALSE}]

\* Frame rates of the steadily playing streams: rates whose frame interval is a
\* whole number of milliseconds.
Rates == {1, 2, 4, 5, 10, 20, 25, 50}

\* Configurations of the configuration specification: every spelling of the
\* sources and every value of the autoplay and loop arguments.
ConfigSources == Sources \cup {"A"}

ConfigDataSet ==
    [video_src : ConfigSources, seek_to : {Null}, autoplay : BOOLEAN,
     loop : BOOLEAN]

VARIABLES
    hasRVFC,        \* 'requestVideoFrameCallback' in HTMLVideoElement.prototype
    hasRAF,         \* requestAnimationFrame is defined
    now,            \* the clock
    video,          \* the <video> element
    inst,           \* one record per invocation of the component function
    out,            \* setStateValue calls of the last step, in order
    writes,         \* values the Seek Gate assigned to currentTime in the last step
    threw,          \* a listener of the last step ended with an exception
    lastEmitAt,     \* clock reading of the latest setStateValue call
    firstDetected,  \* the first rate any sampling session converged on
    frameRate,      \* frames per second the stream presents while playing, or
                    \* Null when frames are presented at no fixed cadence
    host            \* outcome of the latest video_player call, or Null

vars == <<hasRVFC, hasRAF, now, video, inst, out, writes, threw, lastEmitAt,
          firstDetected, frameRate, host>>

\* ------------------------------------------------------------- the element
NewVideo ==
    [src |-> "", currentTime |-> 0, readyState |-> 0, paused |-> TRUE,
     ended |-> FALSE, autoplay |-> FALSE, loop |-> FALSE]

\* Reading video.src returns the attribute as a parsed and serialised URL.
\* The prepared sources "a" and "b" are in serialised form already; "A" is
\* another spelling of "a" (an upper-case host name, say).
ResolveUrl(s) == IF s = "A" THEN "a" ELSE s

\* Assigning video.src runs the element's load algorithm.
LoadSource(v, s) ==
    [v EXCEPT !.src = ResolveUrl(s), !.currentTime = 0, !.readyState = 0,
              !.paused = TRUE, !.ended = FALSE]

\* Assigning video.currentTime moves the playback position.
SetCurrentTime(v, t) ==
    [v EXCEPT !.currentTime = t, !.ended = FALSE]

Playing(v) == ~v.paused /\ ~v.ended

\* ----------------------------------------------------------- pure helpers
\* Math.round(n / d) for n >= 0, d > 0: the nearest integer, halves upwards.
MathRound(n, d) == (2 * n + d) \div (2 * d)

\* Math.floor(video.currentTime * detectedFps), currentTime in seconds.
getCurrentFrame_round(v, c) == MathRound(v.currentTime * c.detectedFps, 1000)

getCurrentFrame(v, c) == (v.currentTime * c.detectedFps) \div 1000

Snapshot(v, c) ==
    [current_time |-> v.currentTime,
     frame_number |-> getCurrentFrame(v, c),
     duration |-> IF v.readyState >= 1 THEN Duration ELSE 0,
     fps |-> c.detectedFps,
     is_playing |-> ~v.paused /\ ~v.ended]

\* ------------------------------------------------------------ the handlers
\* A machine m is the part of the state the handlers read and write, with the
\* kind of the event being handled.
Cur(kind) ==
    [kind |-> kind, video |-> video, inst |-> inst, out |-> <<>>, writes |-> <<>>,
     threw |-> FALSE, lastEmitAt |-> lastEmitAt, firstDetected |-> firstDetected]

updateState(m, i, force) ==
    IF ~force /\ now - m.inst[i].lastUpdateTime < UPDATE_THROTTLE_MS
    THEN m
    ELSE [m EXCEPT
            !.inst[i].lastUpdateTime = now,
            !.out = Append(@, [snap |-> Snapshot(m.video, m.inst[i]),
                               force |-> force, by |-> i, kind |-> m.kind]),
            !.lastEmitAt = Some(now)]

countFrame_throttled(m, i) ==
    LET c == m.inst[i]
        st == IF c.startTime = Null THEN now ELSE Val(c.startTime)
        fc == (IF c.startTime = Null THEN 0 ELSE c.frameCount) + 1
        m1 == [m EXCEPT !.inst[i].startTime = Some(st),
                        !.inst[i].frameCount = fc]
    IN  IF now - st >= SAMPLE_DURATION_MS
        THEN LET fps == MathRound(fc * 1000, now - st)
             IN  updateState(
                    [m1 EXCEPT !.inst[i].detectedFps = fps,
                               !.inst[i].fpsDetectionComplete = TRUE,
                               !.inst[i].rvfc = FALSE,
                               !.firstDetected = IF @ = Null THEN Some(fps) ELSE @],
                    i, FALSE)
        ELSE [m1 EXCEPT !.inst[i].rvfc = TRUE]

countFrame(m, i) ==
    LET c == m.inst[i]
        st == IF c.startTime = Null THEN now ELSE Val(c.startTime)
        fc == (IF c.startTime = Null THEN 0 ELSE c.frameCount) + 1
        m1 == [m EXCEPT !.inst[i].startTime = Some(st),
                        !.inst[i].frameCount = fc]
    IN  IF now - st >= SAMPLE_DURATION_MS
        THEN LET fps == MathRound(fc * 1000, now - st)
             IN  updateState(
                    [m1 EXCEPT !.inst[i].detectedFps = fps,
                               !.inst[i].fpsDetectionComplete = TRUE,
                               !.inst[i].rvfc = FALSE,
                               !.firstDetected = IF @ = Null THEN Some(fps) ELSE @],
                    i, TRUE)
        ELSE [m1 EXCEPT !.inst[i].rvfc = TRUE]

\* detectFps(): registers the one-shot play listener startDetection.
detectFps_nocheck(m, i) == [m EXCEPT !.inst[i].startDetection = TRUE]

detectFps(m, i) ==
    IF ~hasRVFC THEN m
    ELSE [m EXCEPT !.inst[i].startDetection = TRUE]

\* The one-shot play listener registered by detectFps.
startDetection(m, i) ==
    IF ~m.inst[i].startDetection THEN m
    ELSE LET m1 == [m EXCEPT !.inst[i].startDetection = FALSE]
         IN  IF ~m1.inst[i].fpsDetectionComplete
             THEN [m1 EXCEPT !.inst[i].rvfc = TRUE]
             ELSE m1

\* startPlaybackUpdates(): requestAnimationFrame(tick).
startPlaybackUpdates(m, i) ==
    IF ~hasRAF THEN [m EXCEPT !.threw = TRUE]
    ELSE [m EXCEPT !.inst[i].raf = @ + 1]

\* The play listener of line 208: an exception in startPlaybackUpdates ends it.
playListener(m, i) ==
    LET m1 == startPlaybackUpdates(m, i)
    IN  IF ~hasRAF THEN m1 ELSE updateState(m1, i, TRUE)

tick_rearm(m, i) == updateState(m, i, FALSE)

\* One pending tick callback of invocation i runs.
tick(m, i) ==
    IF Playing(m.video)
    THEN updateState(m, i, FALSE)
    ELSE [m EXCEPT !.inst[i].raf = @ - 1]

RECURSIVE ticks(_, _, _)
ticks(m, i, k) == IF k = 0 THEN m ELSE ticks(tick(m, i), i, k - 1)

\* The one-shot loadedmetadata listener of the Seek Gate (line 108).
seekListener(m, i) ==
    IF ~m.inst[i].seekListener THEN m
    ELSE [m EXCEPT !.inst[i].seekListener = FALSE,
                   !.video = SetCurrentTime(@, Val(m.inst[i].seek_to)),
                   !.writes = Append(@, Val(m.inst[i].seek_to))]

\* The listeners invocation i has on event `kind`, in registration order.
listeners(m, i, kind) ==
    CASE kind = "loadedmetadata" -> updateState(seekListener(m, i), i, TRUE)
      [] kind = "play" -> startDetection(playListener(m, i), i)
      [] kind = "pause" -> updateState(m, i, TRUE)
      [] kind = "seeked" -> updateState(m, i, TRUE)
      [] kind = "ended" -> updateState(m, i, TRUE)
      [] kind = "timeupdate" -> updateState(m, i, FALSE)
      [] kind = "frame" -> IF m.inst[i].rvfc THEN countFrame(m, i) ELSE m
      [] kind = "tick" -> ticks(m, i, m.inst[i].raf)

RECURSIVE dispatch_reverse(_, _)
dispatch_reverse(m, i) ==
    IF i > Len(m.inst) THEN m
    ELSE listeners(dispatch_reverse(m, i + 1), i, m.kind)

\* Dispatch of the event m.kind to the listeners of invocations i..Len(inst).
RECURSIVE dispatch(_, _)
dispatch(m, i) ==
    IF i > Len(m.inst) THEN m
    ELSE dispatch(listeners(m, i, m.kind), i + 1)

\* The Seek Gate, lines 103-112, in invocation i with configuration data.
seekGate(m, i, data) ==
    IF data.seek_to # Null /\ data.seek_to # m.inst[i].lastSeekTo
    THEN LET m1 == [m EXCEPT !.inst[i].lastSeekTo = data.seek_to]
         IN  IF m1.video.readyState >= 1
             THEN [m1 EXCEPT !.video = SetCurrentTime(@, Val(data.seek_to)),
                             !.writes = Append(@, Val(data.seek_to))]
             ELSE [m1 EXCEPT !.inst[i].seekListener = TRUE]
    ELSE m

configure_always(v, data) ==
    LET v1 == IF data.video_src # "" THEN LoadSource(v, data.video_src) ELSE v
        v2 == IF data.autoplay THEN [v1 EXCEPT !.autoplay = TRUE] ELSE v1
    IN  IF data.loop THEN [v2 EXCEPT !.loop = TRUE] ELSE v2

\* Lines 80-100: source, autoplay and loop of the configuration.
configure(v, data) ==
    LET v1 == IF data.video_src # "" /\ v.src # data.video_src
              THEN LoadSource(v, data.video_src) ELSE v
        v2 == IF data.autoplay THEN [v1 EXCEPT !.autoplay = TRUE] ELSE v1
    IN  IF data.loop THEN [v2 EXCEPT !.loop = TRUE] ELSE v2

\* The variables one invocation declares (lines 72-77, 125-126).
NewInst(data) ==
    [seek_to |-> data.seek_to,
     detectedFps |-> FALLBACK_FPS, fpsDetectionComplete |-> FALSE,
     lastUpdateTime |-> 0, lastSeekTo |-> Null,
     frameCount |-> 0, startTime |-> Null,
     startDetection |-> FALSE, seekListener |-> FALSE,
     rvfc |-> FALSE, raf |-> 0]

\* One invocation of the component function with configuration data.
invoke(m, data) ==
    LET i == Len(m.inst) + 1
        m1 == [m EXCEPT !.inst = Append(@, NewInst(data)),
                        !.video = configure(@, data)]
    IN  updateState(detectFps(seekGate(m1, i, data), i), i, TRUE)

\* ---------------------------------------------------------------- actions
\* What the handlers of one step leave behind on the browser side.
Effects(m) ==
    /\ video' = m.video
    /\ inst' = m.inst
    /\ out' = m.out
    /\ writes' = m.writes
    /\ threw' = m.threw
    /\ lastEmitAt' = m.lastEmitAt
    /\ firstDetected' = m.firstDetected
    /\ UNCHANGED <<hasRVFC, hasRAF, now, frameRate>>

Commit(m) ==
    /\ Effects(m)
    /\ UNCHANGED host

\* The browser side after the first invocation, on a fresh element.
InitPlayer(D, rvfc, raf) ==
    /\ hasRVFC = rvfc
    /\ hasRAF = raf
    /\ now = Timeline[1]
    /\ \E data \in D :
         LET m == invoke([kind |-> "render", video |-> NewVideo, inst |-> <<>>,
                          out |-> <<>>, writes |-> <<>>, threw |-> FALSE,
                          lastEmitAt |-> Null, firstDetected |-> Null], data)
         IN  /\ video = m.video
             /\ inst = m.inst
             /\ out = m.out
             /\ writes = m.writes
             /\ threw = m.threw
             /\ lastEmitAt = m.lastEmitAt
             /\ firstDetected = m.firstDetected

\* The state after the first invocation, on a fresh element.
InitFrom(D, rvfc, raf) ==
    /\ InitPlayer(D, rvfc, raf)
    /\ frameRate = Null
    /\ host = Null

\* A host render cycle delivers a configuration.
RenderFrom(D) ==
    /\ Len(inst) < MaxInst
    /\ \E data \in D : Commit(invoke(Cur("render"), data))

Render == RenderFrom(DataSet)

RenderSeek == RenderFrom(SeekDataSet)

RenderConfig == RenderFrom(ConfigDataSet)

AdvanceClock ==
    /\ \E k \in DOMAIN Timeline : Timeline[k] > now /\ now' = Timeline[k]
    /\ out' = <<>>
    /\ writes' = <<>>
    /\ threw' = FALSE
    /\ UNCHANGED <<hasRVFC, hasRAF, video, inst, lastEmitAt, firstDetected,
                   frameRate, host>>

LoadedMetadata ==
    /\ video.src # ""
    /\ video.readyState = 0
    /\ Commit(dispatch([Cur("loadedmetadata") EXCEPT !.video.readyState = 1], 1))

\* Playback starts: the user presses play, or autoplay takes effect.  A replay
\* after the end starts from position 0.
Play ==
    /\ video.paused \/ video.ended
    /\ \A i \in DOMAIN inst : inst[i].raf < MaxRaf
    /\ LET v == IF video.ended
                THEN [SetCurrentTime(video, 0) EXCEPT !.paused = FALSE]
                ELSE [video EXCEPT !.paused = FALSE]
       IN  Commit(dispatch([Cur("play") EXCEPT !.video = v], 1))

Pause ==
    /\ ~video.paused
    /\ Commit(dispatch([Cur("pause") EXCEPT !.video.paused = TRUE], 1))

\* The user scrubs to another position.
UserSeek ==
    /\ video.readyState >= 1
    /\ \E p \in Positions \ {video.currentTime} :
         Commit([Cur("scrub") EXCEPT !.video = SetCurrentTime(@, p)])

\* A seek (by the user, the Seek Gate or a replay) has completed.
Seeked ==
    /\ video.readyState >= 1
    /\ Commit(dispatch(Cur("seeked"), 1))

\* Playback reaches the end of the stream.
Ended ==
    /\ video.readyState >= 1
    /\ Playing(video)
    /\ ~video.loop
    /\ Commit(dispatch([Cur("ended") EXCEPT !.video.currentTime = Duration,
                                            !.video.ended = TRUE,
                                            !.video.paused = TRUE], 1))

\* A timeupdate event; while playing the position has moved on.
TimeUpdate ==
    /\ video.readyState >= 1
    /\ \E p \in Positions :
         /\ IF Playing(video) THEN p >= video.currentTime ELSE p = video.currentTime
         /\ Commit(dispatch([Cur("timeupdate") EXCEPT !.video.currentTime = p], 1))

\* A video frame is presented while playing: the pending frame callbacks run.
VideoFrame ==
    /\ video.readyState >= 1
    /\ Playing(video)
    /\ \A i \in DOMAIN inst : inst[i].rvfc => inst[i].frameCount < MaxFrames
    /\ Commit(dispatch(Cur("frame"), 1))

\* A display refresh: the pending animation-frame callbacks run.
AnimationFrame ==
    /\ \E i \in DOMAIN inst : inst[i].raf > 0
    /\ Commit(dispatch(Cur("tick"), 1))

Init == InitFrom(DataSet, TRUE, TRUE)

Next ==
    \/ Render
    \/ AdvanceClock
    \/ LoadedMetadata
    \/ Play
    \/ Pause
    \/ UserSeek
    \/ Seeked
    \/ Ended
    \/ TimeUpdate
    \/ VideoFrame
    \/ AnimationFrame

\* The player on a platform with both callback primitives.
Spec == Init /\ [][Next]_vars

\* The player on a platform without requestVideoFrameCallback.
InitNoRVFC == InitFrom(DataSet, FALSE, TRUE)

SpecNoRVFC == InitNoRVFC /\ [][Next]_vars

\* The Seek Gate: host deliveries over time, metadata loading and user scrubbing.
InitSeek == InitFrom(SeekDataSet, TRUE, TRUE)

NextSeek ==
    \/ RenderSeek
    \/ AdvanceClock
    \/ LoadedMetadata
    \/ UserSeek
    \/ Seeked

SpecSeek == InitSeek /\ [][NextSeek]_vars

\* The player on a platform without requestAnimationFrame: no animation-frame
\* callback is ever queued, so no display refresh runs one.
InitNoRAF == InitFrom(DataSet, TRUE, FALSE)

NextNoRAF ==
    \/ Render
    \/ AdvanceClock
    \/ LoadedMetadata
    \/ Play
    \/ Pause
    \/ UserSeek
    \/ Seeked
    \/ Ended
    \/ TimeUpdate
    \/ VideoFrame

SpecNoRAF == InitNoRAF /\ [][NextNoRAF]_vars

\* A stream that presents frames at a steady rate and plays uninterrupted: the
\* clock moves from one frame presentation to the next.
FrameInterval == 1000 \div Val(frameRate)

\* The next frame is due: every pending frame callback has run for the frame
\* presented at `now`.
FrameDue ==
    /\ Playing(video)
    /\ \E i \in DOMAIN inst : inst[i].rvfc
    /\ \A i \in DOMAIN inst :
          inst[i].rvfc =>
              IF inst[i].startTime = Null THEN FALSE
              ELSE now - Val(inst[i].startTime)
                      = (inst[i].frameCount - 1) * FrameInterval
    /\ now' = now + FrameInterval
    /\ out' = <<>>
    /\ writes' = <<>>
    /\ threw' = FALSE
    /\ UNCHANGED <<hasRVFC, hasRAF, video, inst, lastEmitAt, firstDetected,
                   frameRate, host>>

\* The frame due at `now` is presented: the pending frame callbacks run.
SteadyFrame ==
    /\ video.readyState >= 1
    /\ Playing(video)
    /\ \E i \in DOMAIN inst : inst[i].rvfc
    /\ \A i \in DOMAIN inst :
          inst[i].rvfc =>
              IF inst[i].startTime = Null THEN TRUE
              ELSE now - Val(inst[i].startTime)
                      = inst[i].frameCount * FrameInterval
    /\ Commit(dispatch(Cur("frame"), 1))

InitSteady ==
    /\ InitPlayer(DataSet, TRUE, TRUE)
    /\ frameRate \in {Some(r) : r \in Rates}
    /\ host = Null

NextSteady ==
    \/ LoadedMetadata
    \/ Play
    \/ FrameDue
    \/ SteadyFrame

SpecSteady == InitSteady /\ [][NextSteady]_vars

\* ------------------------------------------------------------ the host side
\* Python values: None is Null, any other value x is Some(x).

\* The strings given as str or Path sources, and the bytes given as bytes.
UrlTexts ==
    {"https://h/v.mp4", "http://h/v.mp4", "blob:h/1", "data:video/mp4;base64,QQ=="}
LocalTexts == {"clip.mp4", "clip.webm", "clip", "videos", "missing.mp4"}
Texts == UrlTexts \cup LocalTexts \cup {"ftp://h/v.mp4"}
ByteStrings == {"A"}

SourceArgs ==
    {[type |-> "str", text |-> t] : t \in Texts}
        \cup {[type |-> "Path", text |-> t] : t \in LocalTexts}
        \cup {[type |-> "bytes", text |-> b] : b \in ByteStrings}
        \cup {[type |-> "int", text |-> "5"], [type |-> "NoneType", text |-> "None"]}

\* The file system: regular files (each holding the bytes "A") and directories.
Files == {"clip.mp4", "clip.webm", "clip"}
Directories == {"videos"}

\* source.startswith(("data:", "http://", "https://", "blob:")): the prefix
\* each text starts with, "" when it starts with none of the four.
UrlPrefixes == {"data:", "http://", "https://", "blob:"}
PrefixOf(t) ==
    CASE t = "https://h/v.mp4" -> "https://"
      [] t = "http://h/v.mp4" -> "http://"
      [] t = "blob:h/1" -> "blob:"
      [] t = "data:video/mp4;base64,QQ==" -> "data:"
      [] OTHER -> ""

\* mimetypes.guess_type by file extension.
guess_type(path) ==
    CASE path = "clip.mp4" -> Some("video/mp4")
      [] path = "clip.webm" -> Some("video/webm")
      [] OTHER -> Null

_get_mime_type(file_path) ==
    IF guess_type(file_path) = Null THEN "video/mp4"
    ELSE Val(guess_type(file_path))

\* base64.b64encode(...).decode()
b64encode(bytes) == CASE bytes = "A" -> "QQ=="

\* f"data:{mime_type};base64,{b64}"
DataUrl(mime_type, b64) ==
    CASE mime_type = "video/mp4" /\ b64 = "QQ==" -> "data:video/mp4;base64,QQ=="
      [] mime_type = "video/webm" /\ b64 = "QQ==" -> "data:video/webm;base64,QQ=="

Returns(v) == [raised |-> "", value |-> v]
Raises(e) == [raised |-> e, value |-> ""]

_prepare_video_source(source) ==
    IF source.type = "bytes"
    THEN Returns(DataUrl("video/mp4", b64encode(source.text)))
    ELSE IF source.type \in {"str", "Path"}
    THEN IF PrefixOf(source.text) \in UrlPrefixes
         THEN Returns(source.text)
         ELSE IF source.text \in Files
         THEN Returns(DataUrl(_get_mime_type(source.text), b64encode("A")))
         ELSE IF source.text \in Directories
         THEN Raises("IsADirectoryError")
         ELSE Raises("FileNotFoundError")
    ELSE Raises("TypeError")

\* The fields of a state, the values the component sets them to in a snapshot,
\* and the values of default_state.
FieldNames == {"current_time", "frame_number", "duration", "fps", "is_playing"}

SampleState ==
    [current_time |-> 2750, frame_number |-> 5, duration |-> Duration, fps |-> 2,
     is_playing |-> TRUE]

default_state ==
    [current_time |-> 0, frame_number |-> 0, duration |-> 0, fps |-> 30,
     is_playing |-> FALSE]

\* A mapping gives each field no entry (Null), an entry holding None
\* (Some(Null)) or an entry holding a value (Some(Some(x))).
FieldShapes == {"absent", "null", "value"}
DictOf(shape) ==
    [k \in FieldNames |->
        CASE shape[k] = "absent" -> Null
          [] shape[k] = "null" -> Some(Null)
          [] shape[k] = "value" -> Some(Some(SampleState[k]))]
\* The mappings handed back: complete ones, ones in which one field is missing
\* or None, the empty one and the one whose fields are all None.
DictShapes ==
    {shape \in [FieldNames -> FieldShapes] :
        \/ Cardinality({k \in FieldNames : shape[k] # "value"}) <= 1
        \/ \A k \in FieldNames : shape[k] = "absent"
        \/ \A k \in FieldNames : shape[k] = "null"}
Dicts == {DictOf(shape) : shape \in DictShapes}
NoDict == [k \in FieldNames |-> Null]

\* state_dict.get(key, default)
dictGet(d, key, default) == IF d[key] = Null THEN Some(default) ELSE Val(d[key])

\* What can stand where a state is expected: None, a non-mapping, a mapping.
PyNone == [kind |-> "None", dict |-> NoDict]
StateValues ==
    {PyNone, [kind |-> "list", dict |-> NoDict]}
        \cup {[kind |-> "dict", dict |-> d] : d \in Dicts}
DefaultStateValue ==
    [kind |-> "dict", dict |-> [k \in FieldNames |-> Some(Some(default_state[k]))]]

\* What _component(...) can hand back: None, an object with or without a
\* state attribute, a dict with or without a "state" key.
ComponentResults ==
    {[kind |-> "None", state |-> Null]}
        \cup [kind : {"object", "dict"},
              state : {Null} \cup {Some(v) : v \in StateValues}]

\* The VideoState dataclass: its constructor and its field defaults.
VideoState(current_time, frame_number, duration, fps, is_playing) ==
    [current_time |-> current_time, frame_number |-> frame_number,
     duration |-> duration, fps |-> fps, is_playing |-> is_playing]

VideoStateDefault == VideoState(Some(0), Some(0), Some(0), Some(30), Some(FALSE))

\* Lines 404-422: the conversion of the component's result to a VideoState.
ConvertResult(result) ==
    IF result.kind = "None" THEN VideoStateDefault
    ELSE LET attr == IF result.kind = "object" /\ result.state # Null
                     THEN Val(result.state) ELSE PyNone
             state_dict ==
                 IF attr.kind = "None"
                 THEN IF result.kind = "dict"
                      THEN IF result.state # Null THEN Val(result.state)
                           ELSE DefaultStateValue
                      ELSE DefaultStateValue
                 ELSE attr
         IN  IF state_dict.kind = "dict"
             THEN VideoState(dictGet(state_dict.dict, "current_time", 0),
                             dictGet(state_dict.dict, "frame_number", 0),
                             dictGet(state_dict.dict, "duration", 0),
                             dictGet(state_dict.dict, "fps", 30),
                             dictGet(state_dict.dict, "is_playing", FALSE))
             ELSE VideoStateDefault

\* The data video_player sends for a prepared source, with its other
\* arguments at their defaults.
DataFor(video_src) ==
    [video_src |-> video_src, seek_to |-> Null, autoplay |-> FALSE, loop |-> FALSE]

\* The calls of video_player: every source with a complete result, and every
\* result with a URL source and with a bytes source.
CompleteResult ==
    [kind |-> "object",
     state |-> Some([kind |-> "dict",
                     dict |-> [k \in FieldNames |-> Some(Some(SampleState[k]))]])]
CallArgs ==
    (SourceArgs \X {CompleteResult})
        \cup ({[type |-> "str", text |-> "https://h/v.mp4"],
               [type |-> "bytes", text |-> "A"]} \X ComponentResults)

\* The outcome of a call: its source argument, what _component handed back
\* (Null when it was not called), and the exception raised or the VideoState
\* returned.
Raised(source, e) ==
    Some([source |-> source, result |-> Null, raised |-> e, returned |-> Null])
Returned(source, result, state) ==
    Some([source |-> source, result |-> Some(result), raised |-> "",
          returned |-> Some(state)])

video_player_late(source, result) ==
    LET video_src == _prepare_video_source(source)
    IN  /\ Len(inst) < MaxInst
        /\ Effects(invoke(Cur("render"), DataFor(video_src.value)))
        /\ host' = IF video_src.raised # "" THEN Raised(source, video_src.raised)
                   ELSE Returned(source, result, ConvertResult(result))

\* One call of video_player(source) in which _component hands back result.
video_player_call(source, result) ==
    LET video_src == _prepare_video_source(source)
    IN  IF video_src.raised # ""
        THEN /\ host' = Raised(source, video_src.raised)
             /\ out' = <<>>
             /\ writes' = <<>>
             /\ threw' = FALSE
             /\ UNCHANGED <<hasRVFC, hasRAF, now, video, inst, lastEmitAt,
                            firstDetected, frameRate>>
        ELSE /\ Len(inst) < MaxInst
             /\ Effects(invoke(Cur("render"), DataFor(video_src.value)))
             /\ host' = Returned(source, result, ConvertResult(result))

video_player == \E args \in CallArgs : video_player_call(args[1], args[2])

\* The first script run: video_player is called while no player exists.
InitHost ==
    /\ hasRVFC = TRUE
    /\ hasRAF = TRUE
    /\ now = Timeline[1]
    /\ frameRate = Null
    /\ \E args \in CallArgs :
         LET source == args[1]
             result == args[2]
             video_src == _prepare_video_source(source)
             m0 == [kind |-> "render", video |-> NewVideo, inst |-> <<>>,
                    out |-> <<>>, writes |-> <<>>, threw |-> FALSE,
                    lastEmitAt |-> Null, firstDetected |-> Null]
             m == IF video_src.raised # "" THEN m0
                  ELSE invoke(m0, DataFor(video_src.value))
         IN  /\ video = m.video
             /\ inst = m.inst
             /\ out = m.out
             /\ writes = m.writes
             /\ threw = m.threw
             /\ lastEmitAt = m.lastEmitAt
             /\ firstDetected = m.firstDetected
             /\ host = IF video_src.raised # "" THEN Raised(source, video_src.raised)
                        ELSE Returned(source, result, ConvertResult(result))

NextHost ==
    \/ video_player
    \/ LoadedMetadata
    \/ UserSeek

SpecHost == InitHost /\ [][NextHost]_vars

\* Host deliveries of every configuration over time, between the element's
\* own events.
InitConfig == InitFrom(ConfigDataSet, TRUE, TRUE)

NextConfig ==
    \/ RenderConfig
    \/ LoadedMetadata
    \/ Play
    \/ Pause
    \/ UserSeek
    \/ Ended

SpecConfig == InitConfig /\ [][NextConfig]_vars

\* ------------------------------------------------------------ observations
\* The step is the invocation of the component function with configuration data.
Delivers(data) ==
    /\ Len(inst) < MaxInst
    /\ Commit(invoke(Cur("render"), data))

\* The step is an invocation of the component function.
IsRender == Len(inst') = Len(inst) + 1

\* The seek target of the latest delivery, and of the one the step makes.
LastTarget == inst[Len(inst)].seek_to
NewTarget == inst'[Len(inst')].seek_to

\* The last target the Seek Gate acted on: the lastSeekTo of the latest
\* invocation that recorded one.
LastActed ==
    LET acted == {i \in DOMAIN inst : inst[i].lastSeekTo # Null}
    IN  IF acted = {} THEN Null
        ELSE inst[CHOOSE i \in acted : \A j \in acted : j <= i].lastSeekTo

\* The Seek Gate acted in this render step: it assigned the position or
\* registered a deferred assignment.
GateActed == writes' # <<>> \/ inst'[Len(inst')].seekListener

IsLoadedMetadata == video.readyState = 0 /\ video'.readyState = 1
IsPlay == (video.paused \/ video.ended) /\ ~video'.paused /\ ~video'.ended
IsPause == ~IsRender /\ ~video.paused /\ video'.paused /\ ~video'.ended
IsEnded == ~video.ended /\ video'.ended

\* The step is a display refresh that runs the pending animation-frame
\* callbacks: it leaves clock, element and number of invocations alone and
\* its emissions are those of tick callbacks.
IsTick ==
    /\ now' = now
    /\ video' = video
    /\ Len(inst') = Len(inst)
    /\ \A k \in DOMAIN out' : out'[k].kind = "tick"
    /\ AnimationFrame

\* Milliseconds between the k-th emission of the step and the emission before it.
Gap(k) ==
    IF k > 1 THEN 0
    ELSE IF lastEmitAt = Null THEN UPDATE_THROTTLE_MS ELSE now' - Val(lastEmitAt)

ForcedKinds == {"loadedmetadata", "play", "pause", "seeked", "ended"}

Times(t, ws) == Cardinality({k \in DOMAIN ws : ws[k] = t})

\* The targets of the deferred assignments registered by invocations 1..n and
\* not yet run, in registration order.
RECURSIVE Deferred(_)
Deferred(n) ==
    IF n = 0 THEN <<>>
    ELSE IF inst[n].seekListener
         THEN Append(Deferred(n - 1), Val(inst[n].seek_to))
         ELSE Deferred(n - 1)

\* ------------------------------------------------------------------ claims

\* C1: when the host delivers the same non-null seek target on two consecutive
\* render cycles, the second delivery does not change the element's position,
\* whatever the user did to it in between.
C1_SecondDeliveryKeepsPosition ==
    [][(IsRender /\ NewTarget # Null /\ NewTarget = LastTarget
            /\ video'.src = video.src)
        => video'.currentTime = video.currentTime]_vars

\* C2: a delivered seek target is acted on if and only if it is non-null and
\* differs from the last target that was acted on.
C2_ActedIffNewTarget ==
    [][IsRender => (GateActed <=> (NewTarget # Null /\ NewTarget # LastActed))]_vars

\* C3: every non-forced emission happens at least 250 ms after the previous
\* emission of any kind.
C3_NonForcedSpacing ==
    [][\A k \in DOMAIN out' :
          ~out'[k].force => Gap(k) >= UPDATE_THROTTLE_MS]_vars

\* C4: in every emitted snapshot frame_number is the floor of current_time
\* (seconds) times fps, both taken from the same snapshot.
C4_FrameIsFloor ==
    \A k \in DOMAIN out :
        LET s == out[k].snap
        IN  /\ s.frame_number * 1000 <= s.current_time * s.fps
            /\ s.current_time * s.fps < (s.frame_number + 1) * 1000

\* C4 witness: a snapshot whose position times rate is not a whole number of
\* frames, under a detected rate.
C4_Witness ==
    \E k \in DOMAIN out :
        /\ out[k].snap.fps \notin {0, FALLBACK_FPS}
        /\ out[k].snap.current_time = 2750
        /\ out[k].snap.frame_number = 5

\* C5: every emitted snapshot has fps > 0.
C5_FpsPositive == \A k \in DOMAIN out : out[k].snap.fps > 0

\* C6: once a rate has been detected no step starts a new sampling session,
\* and every snapshot emitted from then on carries the detected rate.
C6_DetectOnce ==
    [][/\ firstDetected # Null =>
            \A i \in DOMAIN inst' :
                inst'[i].rvfc => (i \in DOMAIN inst /\ inst[i].rvfc)
       /\ firstDetected' # Null =>
            \A k \in DOMAIN out' : out'[k].snap.fps = Val(firstDetected')]_vars

\* A snapshot emitted by an invocation that has not converged carries 30.
BeforeConvergence ==
    \A k \in DOMAIN out :
        ~inst[out[k].by].fpsDetectionComplete => out[k].snap.fps = FALLBACK_FPS

\* The step in which invocation i converges emits exactly one snapshot for it,
\* forced and carrying the rate just detected.
ConvergenceEmission ==
    \A i \in DOMAIN inst :
        (~inst[i].fpsDetectionComplete /\ inst'[i].fpsDetectionComplete) =>
            /\ Cardinality({k \in DOMAIN out' : out'[k].by = i}) = 1
            /\ \A k \in DOMAIN out' :
                  out'[k].by = i =>
                      /\ out'[k].force
                      /\ out'[k].snap.fps = inst'[i].detectedFps

\* C7: every snapshot emitted before convergence carries the fallback rate 30,
\* and convergence is followed, in the same step, by exactly one forced
\* emission carrying the newly detected rate, whatever the throttle says.
C7_FallbackThenOneForced ==
    []BeforeConvergence /\ [][ConvergenceEmission]_vars

\* C7 witness: a convergence emission carrying a detected rate.
C7_Witness ==
    \E k \in DOMAIN out :
        /\ out[k].kind = "frame"
        /\ out[k].force
        /\ out[k].snap.fps # FALLBACK_FPS
        /\ inst[out[k].by].fpsDetectionComplete

\* C8: without the frame-timing primitive no sampling is ever armed, every
\* snapshot carries 30 and no convergence emission fires.
C8_NoPrimitiveNoSampling ==
    ~hasRVFC =>
        /\ \A i \in DOMAIN inst :
              /\ ~inst[i].startDetection
              /\ ~inst[i].rvfc
              /\ inst[i].startTime = Null
              /\ ~inst[i].fpsDetectionComplete
              /\ inst[i].detectedFps = FALLBACK_FPS
        /\ \A k \in DOMAIN out :
              out[k].snap.fps = FALLBACK_FPS /\ out[k].kind # "frame"
        /\ firstDetected = Null

\* C8 witness: a play event handled by two invocations on such a platform.
C8_Witness ==
    /\ ~hasRVFC
    /\ Len(out) = 2
    /\ \A k \in DOMAIN out : out[k].kind = "play" /\ out[k].snap.fps = FALLBACK_FPS

\* C9: each metadata-loaded, play, pause, seeked and ended event produces
\* exactly one emission in its step, and a time-update event emits only when
\* at least 250 ms have passed since the previous emission.
C9_OneEmissionPerEvent ==
    [][/\ (IsLoadedMetadata \/ IsPlay \/ IsPause \/ IsEnded) => Len(out') = 1
       /\ \A k \in DOMAIN out' :
             /\ out'[k].kind \in ForcedKinds => Len(out') = 1
             /\ out'[k].kind = "timeupdate" => Gap(k) >= UPDATE_THROTTLE_MS]_vars

\* C10: a seek target delivered while the element has no metadata is not
\* applied in that step; at the next metadata-loaded event it is assigned
\* exactly once, and no deferred assignment is left for a later one.
C10_DeferredSeekOnce ==
    [][/\ (IsRender /\ video'.readyState = 0) => writes' = <<>>
       /\ IsLoadedMetadata =>
            /\ \A i \in DOMAIN inst :
                  inst[i].seekListener => Times(Val(inst[i].seek_to), writes') = 1
            /\ \A i \in DOMAIN inst' : ~inst'[i].seekListener]_vars

\* C11: without the display-refresh primitive no listener ends with an
\* exception, every play event still produces a forced emission, and a
\* time-update event at least 250 ms after an invocation's last emission
\* still emits.
C11_DegradesSilently ==
    [][~hasRAF =>
         /\ ~threw'
         /\ IsPlay => \E k \in DOMAIN out' : out'[k].force
         /\ (TimeUpdate /\ \E i \in DOMAIN inst :
                              now - inst[i].lastUpdateTime >= UPDATE_THROTTLE_MS)
                => \E k \in DOMAIN out' : ~out'[k].force]_vars

\* C14: no invocation ever has more than one animation-frame continuation
\* of its update driver pending.
C14_OnePendingTick == \A i \in DOMAIN inst : inst[i].raf <= 1

\* C15: a display refresh that finds the element paused or ended leaves no
\* continuation pending and emits nothing; with no continuation pending no
\* step makes a tick-driven emission; a play event leaves a continuation
\* pending for every invocation, and a display refresh while playing keeps it.
C15_DriverSelfTerminates ==
    [][/\ IsTick =>
            IF Playing(video)
            THEN \A i \in DOMAIN inst : inst'[i].raf = inst[i].raf
            ELSE /\ \A i \in DOMAIN inst' : inst'[i].raf = 0
                 /\ out' = <<>>
       /\ (\A i \in DOMAIN inst : inst[i].raf = 0) =>
            \A k \in DOMAIN out' : out'[k].kind # "tick"
       /\ IsPlay => \A i \in DOMAIN inst' : inst'[i].raf >= 1]_vars

\* C15 witness: every invocation has handled a play event, the element is
\* paused, and a display refresh has run the drivers down.
C15_Witness ==
    /\ video.paused
    /\ ~video.ended
    /\ Len(inst) = MaxInst
    /\ \A i \in DOMAIN inst : ~inst[i].startDetection /\ inst[i].raf = 0

\* C17: at most one frame-counting callback chain is pending at any time; a
\* play event after the first arms no further chain, leaves every frame count
\* and window start as they were, and produces a forced emission.
C17_FirstPlayArmsOnce ==
    /\ [](Cardinality({i \in DOMAIN inst : inst[i].rvfc}) <= 1)
    /\ [][IsPlay =>
            /\ \A i \in DOMAIN inst :
                  /\ inst'[i].frameCount = inst[i].frameCount
                  /\ inst'[i].startTime = inst[i].startTime
            /\ (\E i \in DOMAIN inst : ~inst[i].startDetection) =>
                  \A i \in DOMAIN inst : inst'[i].rvfc => inst[i].rvfc
            /\ \E k \in DOMAIN out' :
                  out'[k].force /\ out'[k].kind = "play"]_vars

\* C20: a metadata-loaded event assigns the targets of the pending deferred
\* assignments once each, in the order they were registered and with the
\* values they were registered with, leaves none pending, and the position
\* is then the most recently acted-on target.
C20_DeferredInOrder ==
    [][IsLoadedMetadata =>
         /\ writes' = Deferred(Len(inst))
         /\ \A i \in DOMAIN inst' : ~inst'[i].seekListener
         /\ writes' # <<>> => video'.currentTime = Val(LastActed)]_vars

\* C20 witness: two distinct targets were deferred and both have been assigned
\* at the metadata-loaded event, the later one last.
C20_Witness ==
    /\ video.readyState = 1
    /\ Len(writes) = 2
    /\ writes[1] # writes[2]
    /\ writes[2] = Val(inst[2].lastSeekTo)
    /\ video.currentTime = writes[2]

\* C18: after every delivery the element's autoplay and loop flags equal the
\* autoplay and loop values of the configuration just delivered.
C18_FlagsFollowLatest ==
    [][\A data \in ConfigDataSet :
          Delivers(data) =>
              /\ video'.autoplay = data.autoplay
              /\ video'.loop = data.loop]_vars

\* C19: a delivery whose source is empty or equals the source the element
\* reports leaves the element's source, its metadata status and its position
\* as they were.
C19_SameSourceNoReload ==
    [][\A data \in ConfigDataSet :
          (Delivers(data) /\ (data.video_src = "" \/ data.video_src = video.src)) =>
              /\ video'.src = video.src
              /\ video'.readyState = video.readyState
              /\ video'.currentTime = video.currentTime]_vars

\* C19 witness: the second invocation found the element with loaded metadata
\* at a position the user had moved to, and reported both in its first emission.
C19_Witness ==
    \E k \in DOMAIN out :
        /\ out[k].kind = "render"
        /\ out[k].by = 2
        /\ out[k].snap.current_time = 2750
        /\ out[k].snap.duration = Duration

\* C16: on a stream that presents frames at a steady rate and plays
\* uninterrupted through the sampling window, the rate a sampling session
\* converges on equals the stream's rate.
C16_ConvergesOnStreamRate ==
    [][\A i \in DOMAIN inst :
          (~inst[i].fpsDetectionComplete /\ inst'[i].fpsDetectionComplete) =>
              inst'[i].detectedFps = Val(frameRate)]_vars

\* The step is a call of video_player: it leaves a new outcome or invokes the
\* component function.
IsCall == host' # Null /\ (host' # host \/ IsRender)

\* The state the component handed back is missing or is not a mapping.
NoUsableState(result) ==
    IF result.state = Null THEN TRUE ELSE Val(result.state).kind # "dict"

\* C12: whatever the component hands back, a call of video_player that does
\* not raise returns a snapshot, no field of the snapshot is None, and when
\* the state is missing or not a mapping the snapshot is the default one.
C12_WellDefinedSnapshot ==
    host # Null =>
        (Val(host).raised = "" =>
            /\ Val(host).returned # Null
            /\ \A f \in FieldNames : Val(Val(host).returned)[f] # Null
            /\ NoUsableState(Val(Val(host).result)) =>
                  Val(Val(host).returned) = VideoStateDefault)

\* The source is a local path that does not exist or is of unsupported type.
ConfigurationError(source) ==
    \/ source.type \notin {"str", "Path", "bytes"}
    \/ /\ source.type \in {"str", "Path"}
       /\ PrefixOf(source.text) \notin UrlPrefixes
       /\ source.text \notin Files \cup Directories

\* C13: a call of video_player with a missing local file or a source of
\* unsupported type raises, and a call that raises invokes no component
\* function, emits nothing, returns nothing and leaves element and invocations
\* as they were; a str source with one of the four URL prefixes never raises
\* and reaches the element unchanged.
C13_RaisesBeforeRender ==
    [][IsCall =>
         LET call == Val(host')
         IN  /\ ConfigurationError(call.source) => call.raised # ""
             /\ call.raised # "" =>
                   /\ call.returned = Null
                   /\ call.result = Null
                   /\ video' = video
                   /\ inst' = inst
                   /\ out' = <<>>
                   /\ writes' = <<>>
             /\ (call.source.type = "str"
                    /\ PrefixOf(call.source.text) \in UrlPrefixes) =>
                   /\ call.raised = ""
                   /\ video'.src = call.source.text]_vars

\* C13 witness: a call for a missing file raised FileNotFoundError while the
\* player had loaded metadata and stood at a position the user had moved to.
C13_Witness ==
    /\ host = Raised([type |-> "str", text |-> "missing.mp4"], "FileNotFoundError")
    /\ Len(inst) >= 1
    /\ video.readyState = 1
    /\ video.currentTime = 2750
    /\ out = <<>>

====
